---- MODULE Spec2Model ----
(***************************************************************************)
(* A model of the goodbye library (package goodbye): the registry of exit  *)
(* handlers, the signal trap started by Notify, and the sync.Once gate     *)
(* through which Exit and the signal listeners run the handlers and call   *)
(* os.Exit.                                                                *)
(*                                                                         *)
(* Goroutines are "actors": the application threads (Threads) that call    *)
(* the public functions, and the listener goroutines that Notify starts    *)
(* (Listeners).  pc[a] is the place in the library where actor a stands.   *)
(* A call that finds its lock free runs to its next blocking point in one  *)
(* step; a call that finds the lock held parks at it ("exit", "register",  *)
(* "notify", "reset", "reset_rwl") and resumes when the lock is released.  *)
(* An actor parked with no enabled step is blocked.                        *)
(***************************************************************************)
EXTENDS Integers, Sequences, FiniteSets, TLC

\* ---------------------------------------------------------------- bounds
\* Registration calls made in one run.
MaxRegs == 2
\* Notify calls made (listener goroutines started) in one run.
MaxNotify == 1
\* Length of the argument lists given to Notify where its parsing is checked.
MaxArgs == 3

\* ------------------------------------------------------- input alphabets
\* Application goroutines calling the library concurrently.
Threads == {1, 2}
\* Listener goroutines: the n-th Notify call starts listener ListenerOf(n).
\* (The specification of the signal trap alone makes one Notify call more
\* than MaxNotify.)
ListenerOf(n) == 10 + n
Listeners == {ListenerOf(n) : n \in 1 .. MaxNotify + 1}
Actors == Threads \cup Listeners

\* Priorities given to RegisterWithPriority.
Priorities == {-1, 0}
\* exitCode arguments given to Exit, and values the application stores in ExitCode.
ExitArgs == {-1, 3, 7}
ExitCodeValues == {0, 9}

\* Signals the operating system delivers to the process in a run.
DeliveredSignals == {"SIGINT", "SIGTERM"}
\* Every signal number signal.Notify subscribes to when given no signal.
AllSignals == {"SIGKILL", "SIGHUP", "SIGINT", "SIGQUIT", "SIGTERM"}
\* The zero value of an os.Signal interface variable.
NilSignal == "nil"

\* ------------------------------------------------------------- helpers
Range(s) == {s[i] : i \in 1 .. Len(s)}
EmptyMap == [k \in {} |-> 0]
MapPut(m, k, v) == [x \in (DOMAIN m) \cup {k} |-> IF x = k THEN v ELSE m[x]]

\* The elements of set S in some order: Go's "range" over a map visits the
\* keys in an unspecified order.
Orderings(S) ==
  {s \in [1 .. Cardinality(S) -> S] : \A i, j \in 1 .. Cardinality(S) : i # j => s[i] # s[j]}

\* The elements of set S in one order.
RECURSIVE SeqOf(_)
SeqOf(S) ==
  IF S = {} THEN <<>>
  ELSE LET x == CHOOSE y \in S : TRUE IN <<x>> \o SeqOf(S \ {x})

\* The keys left as "range" gave them.
SortIntsOmitted(keys) == keys

\* The keys in descending order.
RECURSIVE SortIntsDescending(_)
SortIntsDescending(keys) ==
  IF keys = <<>> THEN <<>>
  ELSE LET hi == CHOOSE i \in 1 .. Len(keys) : \A j \in 1 .. Len(keys) : keys[j] <= keys[i]
       IN <<keys[hi]>> \o SortIntsDescending([j \in 1 .. Len(keys) - 1 |->
                                               IF j < hi THEN keys[j] ELSE keys[j + 1]])

\* sort.Ints, as an insertion sort into ascending order.
RECURSIVE InsertInt(_, _)
InsertInt(sorted, k) ==
  IF sorted = <<>> THEN <<k>>
  ELSE IF k <= Head(sorted) THEN <<k>> \o sorted
  ELSE <<Head(sorted)>> \o InsertInt(Tail(sorted), k)

RECURSIVE SortIntsFrom(_, _)
SortIntsFrom(keys, acc) ==
  IF keys = <<>> THEN acc ELSE SortIntsFrom(Tail(keys), InsertInt(acc, Head(keys)))

SortInts(keys) == SortIntsFrom(keys, <<>>)

\* ------------------------------------------------------------ the state
VARIABLES
  ExitCode,      \* var ExitCode int
  handlers,      \* var handlers map[int][]ExitHandler: [isNil, m]
  handlersRWL,   \* var handlersRWL sync.RWMutex: [w |-> the writer, r |-> the readers]
  notified,      \* var notified []os.Signal (package level)
  once,          \* var once sync.Once: "idle", "running"
  lock,          \* var lock sync.Mutex: the set holding the holder, empty when unlocked
  pc,            \* where each actor stands
  arg,           \* the arguments of the call each thread is in (for Exit, also
                 \* "default": the value of ExitCode that Exit read, if it read it)
  hs, hx,        \* the (s, x) arguments of each actor's handleOnce call
  sigs,          \* the sigs map captured by each listener
  sigArgs,       \* the "signals" argument of the Notify call that started each listener
  trapped,       \* os/signal's table: the signals relayed to each listener's channel
  nNotify,       \* listeners started so far
  frame,         \* the locals of the running handle call: [keys, ki, bucket, hi]
  regPrio,       \* the priority of each registered handler; handler n is the one
                 \* whose registration was the n-th to take effect
  discarded,     \* the handlers that were registered when a Reset cleared the registry
  ran,           \* the handler invocations so far: [h, sig, returned]
  claimed,       \* the actors whose once.Do call started its function, in order
  exits          \* the status codes os.Exit was called with, in order

vars == <<ExitCode, handlers, handlersRWL, notified, once, lock, pc, arg, hs, hx,
          sigs, sigArgs, trapped, nNotify, frame, regPrio, discarded, ran,
          claimed, exits>>

\* noSigVal: the value Exit hands to handleOnce; noSig.String() is "nosig".
noSigVal == "nosig"

\* defaultSignals, as set by init() of goodbye_unix.go.
defaultSignals ==
  [s \in AllSignals |-> IF s = "SIGKILL" THEN 1 ELSE 0]

NoArg == [priority |-> 0, exitCode |-> 0, default |-> 0, signals |-> <<>>]
NoFrame == [keys |-> <<>>, ki |-> 0, bucket |-> <<>>, hi |-> 0]

Init ==
  /\ ExitCode = 0
  /\ handlers = [isNil |-> FALSE, m |-> EmptyMap]
  /\ handlersRWL = [w |-> {}, r |-> {}]
  /\ notified = <<>>
  /\ once = "idle"
  /\ lock = {}
  /\ pc = [a \in Actors |-> IF a \in Threads THEN "idle" ELSE "unborn"]
  /\ arg = [t \in Threads |-> NoArg]
  /\ hs = [a \in Actors |-> NilSignal]
  /\ hx = [a \in Actors |-> 0]
  /\ sigs = [l \in Listeners |-> EmptyMap]
  /\ sigArgs = [l \in Listeners |-> <<>>]
  /\ trapped = [l \in Listeners |-> {}]
  /\ nNotify = 0
  /\ frame = NoFrame
  /\ regPrio = <<>>
  /\ discarded = {}
  /\ ran = <<>>
  /\ claimed = <<>>
  /\ exits = <<>>


registryVars == <<handlers, handlersRWL, regPrio, discarded>>
trapVars == <<notified, sigs, sigArgs, trapped, nNotify>>
gateVars == <<once, claimed, frame, ran, exits>>

\* The process lives until the first os.Exit.
Alive == exits = <<>>

\* ------------------------------------------------------- the registry
\* handlers[k] as Go reads it: the zero value (a nil slice) for a missing key
\* and for a nil map.
Lookup(hmap, k) ==
  IF ~hmap.isNil /\ k \in DOMAIN hmap.m THEN hmap.m[k] ELSE <<>>

\* The handlers held by the registry.
Registered(hmap) == UNION {Range(hmap.m[k]) : k \in DOMAIN hmap.m}

\* A write lock that does not wait for the readers to leave.
CanLockIgnoresReaders(rwl) == rwl.w = {}

\* handlersRWL.Lock() may proceed.
CanLock(rwl) == rwl.w = {} /\ rwl.r = {}

\* A drain that also waits for the mutex of Exit, Notify and Reset.
CanRLockUnderLock(rwl) == rwl.w = {} /\ lock = {}

\* handlersRWL.RLock() may proceed.
CanRLock(rwl) == rwl.w = {}

\* A registration that puts the handler at the front of its bucket.
PrependHandler(m, f, priority) ==
  IF priority \notin DOMAIN m
  THEN MapPut(m, priority, <<f>>)
  ELSE MapPut(m, priority, <<f>> \o m[priority])

\* The if/else of RegisterWithPriority on a non-nil map m.
AppendHandler(m, f, priority) ==
  IF priority \notin DOMAIN m
  THEN MapPut(m, priority, <<f>>)
  ELSE MapPut(m, priority, Append(m[priority], f))

\* The body of RegisterWithPriority(f, priority) under the write lock, run by
\* thread t; f is named by the rank of its registration.  Writing to the nil
\* map that Reset leaves behind panics ("assignment to entry in nil map"): the
\* deferred Unlock runs and the call does not return normally.
RegisterBody(t, priority) ==
  /\ IF handlers.isNil
     THEN /\ pc' = [pc EXCEPT ![t] = "panicked"]
          /\ UNCHANGED <<handlers, regPrio>>
     ELSE /\ handlers' = [handlers EXCEPT !.m = AppendHandler(@, Len(regPrio) + 1, priority)]
          /\ regPrio' = Append(regPrio, priority)
          /\ pc' = [pc EXCEPT ![t] = "idle"]
  /\ arg' = [arg EXCEPT ![t] = NoArg]

\* Thread t calls RegisterWithPriority(f, priority), or goes on with the call
\* in which it waits at handlersRWL.Lock(): the body if the lock can be
\* taken, and otherwise t waits at the lock.
Registration(t, priorities) ==
  /\ Alive
  /\ pc[t] \in {"idle", "register"}
  /\ pc[t] = "idle" =>
       Len(regPrio) + Cardinality({u \in Threads : pc[u] = "register"}) < MaxRegs
  /\ \E priority \in (IF pc[t] = "idle" THEN priorities ELSE {arg[t].priority}) :
       IF CanLock(handlersRWL)
       THEN RegisterBody(t, priority)
       ELSE /\ pc[t] = "idle"
            /\ pc' = [pc EXCEPT ![t] = "register"]
            /\ arg' = [arg EXCEPT ![t] = [NoArg EXCEPT !.priority = priority]]
            /\ UNCHANGED <<handlers, regPrio>>
  /\ UNCHANGED <<ExitCode, lock, hs, hx, handlersRWL, discarded, trapVars, gateVars>>

\* Register(f): RegisterWithPriority(f, 0).
Register(t) == Registration(t, {0})

\* RegisterWithPriority(f, priority).
RegisterWithPriority(t) == Registration(t, Priorities)

\* ------------------------------------------------------------ Exit
\* The application assigns the package variable ExitCode.
SetExitCode ==
  /\ Alive
  /\ \E v \in ExitCodeValues : v # ExitCode /\ ExitCode' = v
  /\ UNCHANGED <<lock, pc, arg, hs, hx, registryVars, trapVars, gateVars>>

\* A test against the nil signal instead of noSigVal.
IsNormalExitNil(sig) == sig = NilSignal

\* IsNormalExit: "sig == noSigVal".
IsNormalExit(sig) == sig = noSigVal

\* An Exit that never substitutes ExitCode.
ResolveExitCodeNever(exitCode, default) == exitCode

\* "if exitCode < 0 { exitCode = ExitCode }".
ResolveExitCode(exitCode, default) == IF exitCode < 0 THEN default ELSE exitCode

\* The body of Exit(ctx, exitCode) from lock.Lock() to the call of
\* handleOnce(ctx, noSigVal, exitCode), where thread t stands at once.Do.
ExitBody(t, exitCode) ==
  /\ lock' = {t}
  /\ hs' = [hs EXCEPT ![t] = noSigVal]
  /\ hx' = [hx EXCEPT ![t] = ResolveExitCode(exitCode, ExitCode)]
  /\ arg' = [arg EXCEPT ![t] = [NoArg EXCEPT !.exitCode = exitCode,
                                             !.default = IF exitCode < 0 THEN ExitCode ELSE 0]]
  /\ pc' = [pc EXCEPT ![t] = "once"]

\* Thread t calls Exit(ctx, exitCode) with one of the codes "codes", or goes
\* on with the call in which it waits at lock.Lock(): the body if the lock
\* can be taken, and otherwise t waits at the lock.
ExitCall(t, codes) ==
  /\ Alive
  /\ pc[t] \in {"idle", "exit"}
  /\ \E exitCode \in (IF pc[t] = "idle" THEN codes ELSE {arg[t].exitCode}) :
       IF lock = {}
       THEN ExitBody(t, exitCode)
       ELSE /\ pc[t] = "idle"
            /\ pc' = [pc EXCEPT ![t] = "exit"]
            /\ arg' = [arg EXCEPT ![t] = [NoArg EXCEPT !.exitCode = exitCode]]
            /\ UNCHANGED <<lock, hs, hx>>
  /\ UNCHANGED <<ExitCode, registryVars, trapVars, gateVars>>

\* Exit(ctx, exitCode).
Exit(t) == ExitCall(t, ExitArgs)

\* ------------------------------------------------- handleOnce and handle
\* A gate that lets every caller in.
OnceDoRunsAlways(o) == TRUE

\* sync.Once.Do runs its function for the first caller only; a caller that
\* finds the function running waits for it to return.
OnceDoRuns(o) == o = "idle"

\* handleOnce: once.Do starts the function for actor a.
handleOnce(a) ==
  /\ Alive
  /\ pc[a] = "once"
  /\ OnceDoRuns(once)
  /\ once' = "running"
  /\ claimed' = Append(claimed, a)
  /\ pc' = [pc EXCEPT ![a] = "handle"]
  /\ UNCHANGED <<ExitCode, lock, arg, hs, hx, frame, ran, exits, registryVars, trapVars>>

\* handle: RLock, collect the keys of the map and sort them.
handle(a) ==
  /\ Alive
  /\ pc[a] = "handle"
  /\ CanRLock(handlersRWL)
  /\ handlersRWL' = [handlersRWL EXCEPT !.r = @ \cup {a}]
  /\ \E keys \in Orderings(DOMAIN handlers.m) :
       frame' = [keys |-> SortInts(keys), ki |-> 0, bucket |-> <<>>, hi |-> 0]
  /\ pc' = [pc EXCEPT ![a] = "loop"]
  /\ UNCHANGED <<ExitCode, lock, arg, hs, hx, handlers, regPrio, discarded>>
  /\ UNCHANGED <<once, claimed, ran, exits, trapVars>>

\* The two loops of handle, from the handler called last (bucket[hi] of key
\* keys[ki]) to the next one: the rest of the bucket, then "range handlers[k]"
\* for the following keys.  The result has ki > Len(keys) when no handler is left.
RECURSIVE NextHandler(_, _)
NextHandler(f, hmap) ==
  IF f.hi < Len(f.bucket) THEN [f EXCEPT !.hi = @ + 1]
  ELSE IF f.ki >= Len(f.keys) THEN [f EXCEPT !.ki = Len(f.keys) + 1, !.bucket = <<>>, !.hi = 0]
  ELSE NextHandler([f EXCEPT !.ki = @ + 1, !.bucket = Lookup(hmap, f.keys[f.ki + 1]), !.hi = 0],
                   hmap)

\* The s and x kept where every handleOnce call writes them: those of a call
\* that stands at once.Do, if there is one.
ClosureArgsShared(a) ==
  LET b == IF \E c \in Actors : pc[c] = "once"
           THEN CHOOSE c \in Actors : pc[c] = "once" ELSE a
  IN [s |-> hs[b], x |-> hx[b]]

\* The s and x that the function handleOnce gives to once.Do works with: the
\* closure captures the arguments of actor a's own handleOnce call.
ClosureArgs(a) == [s |-> hs[a], x |-> hx[a]]

\* handle calls the next handler: h(ctx, s).
HandleInvoke(a) ==
  /\ Alive
  /\ pc[a] = "loop"
  /\ LET f == NextHandler(frame, handlers) IN
       /\ f.ki <= Len(f.keys)
       /\ frame' = f
       /\ ran' = Append(ran, [h |-> f.bucket[f.hi],
                             sig |-> ClosureArgs(a).s,
                             returned |-> FALSE])
  /\ pc' = [pc EXCEPT ![a] = "in_handler"]
  /\ UNCHANGED <<ExitCode, lock, arg, hs, hx, registryVars, trapVars>>
  /\ UNCHANGED <<once, claimed, exits>>

\* The handler returns.
HandlerReturn(a) ==
  /\ Alive
  /\ pc[a] = "in_handler"
  /\ ran' = [ran EXCEPT ![Len(ran)].returned = TRUE]
  /\ pc' = [pc EXCEPT ![a] = "loop"]
  /\ UNCHANGED <<ExitCode, lock, arg, hs, hx, frame, registryVars, trapVars>>
  /\ UNCHANGED <<once, claimed, exits>>

\* No handler is left: handle returns (the deferred RUnlock) and handleOnce
\* stands at os.Exit.
HandleReturn(a) ==
  /\ Alive
  /\ pc[a] = "loop"
  /\ LET f == NextHandler(frame, handlers) IN
       /\ f.ki > Len(f.keys)
       /\ frame' = f
  /\ handlersRWL' = [handlersRWL EXCEPT !.r = @ \ {a}]
  /\ pc' = [pc EXCEPT ![a] = "os_exit"]
  /\ UNCHANGED <<ExitCode, lock, arg, hs, hx, handlers, regPrio, discarded>>
  /\ UNCHANGED <<once, claimed, ran, exits, trapVars>>

\* os.Exit(x): the process ends.
OsExit(a) ==
  /\ Alive
  /\ pc[a] = "os_exit"
  /\ exits' = Append(exits, ClosureArgs(a).x)
  /\ UNCHANGED <<ExitCode, lock, pc, arg, hs, hx, registryVars, trapVars>>
  /\ UNCHANGED <<once, claimed, frame, ran>>


\* ---------------------------------------------------------- Notify
\* The values of the variadic "signals ...interface{}" argument: an os.Signal,
\* an int, or a value of another type.
SigArg(s) == [t |-> "signal", sig |-> s, int |-> 0]
IntArg(n) == [t |-> "int", sig |-> NilSignal, int |-> n]
OtherArg == [t |-> "other", sig |-> NilSignal, int |-> 0]

\* The argument lists given to Notify.
NotifyArgLists ==
  { <<>>,
    <<SigArg("SIGINT"), IntArg(1)>>,
    <<OtherArg>> }

\* Argument lists of every shape, up to MaxArgs values long.
ArgValues ==
  {SigArg("SIGINT"), SigArg("SIGTERM"), IntArg(1), IntArg(2), OtherArg}
ArgLists == UNION {[1 .. n -> ArgValues] : n \in 0 .. MaxArgs}

\* The type switch of Notify over the arguments: s is the signal seen last.
RECURSIVE ParseSignals(_, _, _)
ParseSignals(signals, s, m) ==
  IF signals = <<>> THEN m
  ELSE LET v == Head(signals) IN
       CASE v.t = "signal" -> ParseSignals(Tail(signals), v.sig, MapPut(m, v.sig, 0))
         [] v.t = "int" -> ParseSignals(Tail(signals), s, MapPut(m, s, v.int))
         [] OTHER -> ParseSignals(Tail(signals), s, m)

\* A Notify that parses the empty argument list like any other.
ResolveSigsNoDefault(signals) == ParseSignals(signals, NilSignal, EmptyMap)

\* The sigs map of a Notify call.
ResolveSigs(signals) ==
  IF Len(signals) = 0 THEN defaultSignals ELSE ParseSignals(signals, NilSignal, EmptyMap)

\* signal.Notify(c, sig...): no signal at all asks for every signal; a nil
\* signal has no signal number and is skipped.
SignalNotify(sig) ==
  IF Len(sig) = 0 THEN AllSignals ELSE Range(sig) \ {NilSignal}

\* signal.Reset(sig...): the signals are taken from every channel; no signal
\* at all means every signal.
SignalReset(table, sig) ==
  [l \in DOMAIN table |-> IF Len(sig) = 0 THEN {} ELSE table[l] \ Range(sig)]

\* The body of Notify(ctx, signals...) under the lock, run by thread t: the
\* sigs map, the local slice "notified" (declared in the function's var block,
\* so the package variable of that name is not assigned), signal.Notify and
\* the listener goroutine.  The deferred Unlock releases the lock.  The local
\* slice holds the keys of sigs in map order; signal.Notify uses it as a set.
NotifyBody(t, signals) ==
  /\ LET l == ListenerOf(nNotify + 1)
         m == ResolveSigs(signals)
     IN /\ sigs' = [sigs EXCEPT ![l] = m]
        /\ sigArgs' = [sigArgs EXCEPT ![l] = signals]
        /\ LET localNotified == SeqOf(DOMAIN m) IN
             trapped' = [trapped EXCEPT ![l] = SignalNotify(localNotified)]
        /\ pc' = [pc EXCEPT ![t] = "idle", ![l] = "recv"]
  /\ nNotify' = nNotify + 1
  /\ arg' = [arg EXCEPT ![t] = NoArg]

\* Thread t calls Notify(ctx, signals...) with one of the argument lists
\* "lists", or goes on with the call in which it waits at lock.Lock(): the
\* body if the lock can be taken, and otherwise t waits at the lock.  At most
\* "calls" Notify calls are made in a run.
NotifyCall(t, lists, calls) ==
  /\ Alive
  /\ pc[t] \in {"idle", "notify"}
  /\ pc[t] = "idle" =>
       nNotify + Cardinality({u \in Threads : pc[u] = "notify"}) < calls
  /\ \E signals \in (IF pc[t] = "idle" THEN lists ELSE {arg[t].signals}) :
       IF lock = {}
       THEN NotifyBody(t, signals)
       ELSE /\ pc[t] = "idle"
            /\ pc' = [pc EXCEPT ![t] = "notify"]
            /\ arg' = [arg EXCEPT ![t] = [NoArg EXCEPT !.signals = signals]]
            /\ UNCHANGED <<sigs, sigArgs, trapped, nNotify>>
  /\ UNCHANGED <<ExitCode, lock, hs, hx, notified, registryVars, gateVars>>

\* Notify(ctx, signals...).
Notify(t) == NotifyCall(t, NotifyArgLists, MaxNotify)

\* A lookup whose ok is not tested.
SigLookupAlwaysOk(m, s) == [x |-> IF s \in DOMAIN m THEN m[s] ELSE 0, ok |-> TRUE]

\* "x, ok := sigs[s]": the zero value and false for a missing key.
SigLookup(m, s) == [x |-> IF s \in DOMAIN m THEN m[s] ELSE 0, ok |-> s \in DOMAIN m]

\* The listener goroutine, "for s := range sigc": the operating system
\* delivers a signal s that os/signal relays to the listener's channel, and
\* the listener receives it.  (The send to the buffered channel and the
\* receive are one step: the loop body reads nothing but the listener's own
\* sigs map, so the time the signal waits in the channel changes nothing.)
\* A signal with an exit code in sigs calls handleOnce(ctx, s, x), where the
\* listener stands at once.Do; any other signal is skipped ("continue").
Listen(l) ==
  /\ Alive
  /\ pc[l] = "recv"
  /\ \E s \in DeliveredSignals \cap trapped[l] :
       LET r == SigLookup(sigs[l], s) IN
         IF r.ok
         THEN /\ hs' = [hs EXCEPT ![l] = s]
              /\ hx' = [hx EXCEPT ![l] = r.x]
              /\ pc' = [pc EXCEPT ![l] = "once"]
         ELSE UNCHANGED <<hs, hx, pc>>
  /\ UNCHANGED <<ExitCode, lock, arg, registryVars, trapVars, gateVars>>

\* ----------------------------------------------------------- Reset
\* A Reset that leaves the registry as it is.
ResetHandlersKept(hmap) == hmap

\* What Reset leaves in the package variable handlers: "handlers = nil".
ResetHandlers(hmap) == [isNil |-> TRUE, m |-> EmptyMap]

\* The end of Reset under both locks, run by thread t: handlers = nil, and
\* the deferred unlocks.
ResetBody(t) ==
  /\ discarded' = discarded \cup Registered(handlers)
  /\ handlers' = ResetHandlers(handlers)
  /\ lock' = {}
  /\ pc' = [pc EXCEPT ![t] = "idle"]

\* Reset from lock.Lock() on, run by thread t: signal.Reset(notified...), then
\* handlersRWL.Lock(), where t waits (holding lock) while handle reads.
ResetLocked(t) ==
  /\ trapped' = SignalReset(trapped, notified)
  /\ IF CanLock(handlersRWL)
     THEN ResetBody(t)
     ELSE /\ lock' = {t}
          /\ pc' = [pc EXCEPT ![t] = "reset_rwl"]
          /\ UNCHANGED <<handlers, discarded>>

\* Thread t calls Reset(), or goes on with the call in which it waits at
\* lock.Lock(): it runs as far as its locks allow.
Reset(t) ==
  /\ Alive
  /\ pc[t] \in {"idle", "reset"}
  /\ IF lock = {}
     THEN ResetLocked(t)
     ELSE /\ pc[t] = "idle"
          /\ pc' = [pc EXCEPT ![t] = "reset"]
          /\ UNCHANGED <<lock, trapped, handlers, discarded>>
  /\ UNCHANGED <<ExitCode, arg, hs, hx, notified, sigs, sigArgs, nNotify>>
  /\ UNCHANGED <<handlersRWL, regPrio, gateVars>>

\* A Reset call that waited at handlersRWL.Lock() gets the lock.
ResetFinish(t) ==
  /\ Alive
  /\ pc[t] = "reset_rwl"
  /\ CanLock(handlersRWL)
  /\ ResetBody(t)
  /\ UNCHANGED <<ExitCode, arg, hs, hx, handlersRWL, regPrio>>
  /\ UNCHANGED <<trapVars, gateVars>>

\* ------------------------------------------------------ the behaviours
Next ==
  \/ \E t \in Threads : Register(t)
  \/ \E t \in Threads : RegisterWithPriority(t)
  \/ SetExitCode
  \/ \E t \in Threads : Exit(t)
  \/ \E a \in Actors : handleOnce(a)
  \/ \E a \in Actors : handle(a)
  \/ \E a \in Actors : HandleInvoke(a)
  \/ \E a \in Actors : HandlerReturn(a)
  \/ \E a \in Actors : HandleReturn(a)
  \/ \E a \in Actors : OsExit(a)
  \/ \E t \in Threads : Notify(t)
  \/ \E l \in Listeners : Listen(l)
  \/ \E t \in Threads : Reset(t)
  \/ \E t \in Threads : ResetFinish(t)

Spec == Init /\ [][Next]_vars

\* ------------------------------------------------------- fair scheduling
\* A step of the function that once.Do runs for actor a.
DrainStep(a) ==
  \/ handle(a)
  \/ HandleInvoke(a)
  \/ HandlerReturn(a)
  \/ HandleReturn(a)
  \/ OsExit(a)

\* The calls and signals of Next around the drain.  Exit is given one
\* non-negative code, so that ExitCode is not read and is left alone: no step
\* of the drain depends on the code.
DrainExitArgs == {3}
DrainExit(t) == ExitCall(t, DrainExitArgs)

DrainNext ==
  \/ \E t \in Threads : Register(t)
  \/ \E t \in Threads : RegisterWithPriority(t)
  \/ \E t \in Threads : DrainExit(t)
  \/ \E a \in Actors : handleOnce(a)
  \/ \E a \in Actors : DrainStep(a)
  \/ \E t \in Threads : Notify(t)
  \/ \E l \in Listeners : Listen(l)
  \/ \E t \in Threads : Reset(t)
  \/ \E t \in Threads : ResetFinish(t)

\* The scheduler lets a goroutine that can run go on, and every handler
\* returns: the drain is not held up for ever at a step it can take.
LiveSpec == Init /\ [][DrainNext]_vars /\ \A a \in Actors : WF_vars(DrainStep(a))

\* The same steps with no assumption about the scheduler.
DrainSpec == Init /\ [][DrainNext]_vars

\* ------------------------------------------------- the signal trap alone
\* Notify, Reset and the listeners, with no Exit call and no registration:
\* the application starts the trap once more than in Spec.
TrapNotify(t) == NotifyCall(t, NotifyArgLists, MaxNotify + 1)

TrapNext ==
  \/ \E t \in Threads : TrapNotify(t)
  \/ \E t \in Threads : Reset(t)
  \/ \E l \in Listeners : Listen(l)

TrapSpec == Init /\ [][TrapNext]_vars

\* ------------------------------- handlers that call back into the library
\* The handler that actor a's drain is running calls Exit(ctx, exitCode), or
\* goes on with that call where it waits at lock.Lock().  With the lock the
\* call goes through handleOnce to once.Do ("h_once"), which does not return
\* while the function of once is running: the drain that runs this handler.
HandlerExit(a) ==
  /\ Alive
  /\ pc[a] \in {"in_handler", "h_exit"}
  /\ IF lock = {}
     THEN /\ lock' = {a}
          /\ pc' = [pc EXCEPT ![a] = "h_once"]
     ELSE /\ pc[a] = "in_handler"
          /\ pc' = [pc EXCEPT ![a] = "h_exit"]
          /\ UNCHANGED lock
  /\ UNCHANGED <<ExitCode, arg, hs, hx, registryVars, trapVars, gateVars>>

\* The handler that actor a's drain is running calls RegisterWithPriority(f,
\* priority), or goes on with that call where it waits at handlersRWL.Lock()
\* ("h_register"); the handler goes on when the call returns.
HandlerRegister(a) ==
  /\ Alive
  /\ pc[a] \in {"in_handler", "h_register"}
  /\ IF CanLock(handlersRWL)
     THEN /\ Len(regPrio) < MaxRegs
          /\ ~handlers.isNil
          /\ \E priority \in Priorities :
               /\ handlers' = [handlers EXCEPT
                                 !.m = AppendHandler(@, Len(regPrio) + 1, priority)]
               /\ regPrio' = Append(regPrio, priority)
          /\ pc' = [pc EXCEPT ![a] = "in_handler"]
     ELSE /\ pc[a] = "in_handler"
          /\ pc' = [pc EXCEPT ![a] = "h_register"]
          /\ UNCHANGED <<handlers, regPrio>>
  /\ UNCHANGED <<ExitCode, lock, arg, hs, hx, handlersRWL, discarded, trapVars, gateVars>>

ReentrantNext ==
  \/ Next
  \/ \E a \in Actors : HandlerExit(a)
  \/ \E a \in Actors : HandlerRegister(a)

ReentrantSpec == Init /\ [][ReentrantNext]_vars

\* --------------------------------------------- the parsing of Notify
\* One Notify call, given any of ArgLists, then signals and Reset.
ParseNotify(t) == NotifyCall(t, ArgLists, 1)

ParseNext ==
  \/ \E t \in Threads : ParseNotify(t)
  \/ \E l \in Listeners : Listen(l)
  \/ \E t \in Threads : Reset(t)

ParseSpec == Init /\ [][ParseNext]_vars


\* ------------------------------------------------------------ properties
Terminated == exits # <<>>

\* The places inside the function that once.Do runs.
DrainPcs == {"handle", "loop", "in_handler", "os_exit"}

\* Actor a has called handleOnce, or waits in Exit for the lock, and is not
\* the actor that claimed the gate.
Loser(a) ==
  /\ claimed # <<>>
  /\ claimed[1] # a
  /\ pc[a] \in {"exit", "once"}

\* C1: whatever Exit calls and signal deliveries there are, once.Do starts the
\* drain at most once, os.Exit is called at most once and only by the actor
\* that ran the drain, no handler is invoked twice, and the drain is never
\* skipped: when a call stands at the gate (or waits in Exit for the lock)
\* the gate has been claimed or can be claimed now.
C1_DrainExactlyOnce ==
  /\ Len(claimed) <= 1
  /\ Len(exits) <= 1
  /\ Cardinality({a \in Actors : pc[a] \in DrainPcs}) <= 1
  /\ \A i, j \in 1 .. Len(ran) : ran[i].h = ran[j].h => i = j
  /\ Terminated => Len(claimed) = 1 /\ pc[claimed[1]] = "os_exit"
  /\ (\E a \in Actors : pc[a] \in {"exit", "once"}) =>
       \/ claimed # <<>>
       \/ \E a \in Actors : ENABLED handleOnce(a)

\* Two Exit calls and a signal delivery have reached the library, one of them
\* ran the handlers and ended the process.
C1_Witness ==
  /\ Terminated
  /\ Len(ran) >= 1
  /\ \E t \in Threads : pc[t] = "exit"
  /\ \E l \in Listeners : pc[l] = "once"

\* C2: the signal every handler receives and the status code of os.Exit are
\* the s and x of the one handleOnce call that claimed the gate, s and x come
\* from that one call (noSigVal with the Exit call's code, or a signal with
\* the code its listener maps it to), no other call runs the drain, and two
\* Exit calls with codes 3 and 7 (and no signal) end the process with 3 or 7.
C2_WinnerDecides ==
  /\ claimed # <<>> =>
       LET w == claimed[1] IN
         /\ \A i \in 1 .. Len(ran) : ran[i].sig = hs[w]
         /\ Terminated => exits[1] = hx[w]
         /\ \A a \in Actors \ {w} : pc[a] \notin DrainPcs
         /\ w \in Threads =>
              /\ hs[w] = noSigVal
              /\ hx[w] = IF arg[w].exitCode < 0 THEN arg[w].default ELSE arg[w].exitCode
         /\ w \in Listeners =>
              hs[w] \in DOMAIN sigs[w] /\ hx[w] = sigs[w][hs[w]]
  /\ ( /\ Terminated
       /\ \A t \in Threads : pc[t] \in {"exit", "once"} \cup DrainPcs
       /\ {arg[t].exitCode : t \in Threads} = {3, 7}
       /\ \A l \in Listeners : pc[l] \in {"unborn", "recv"} )
     => exits[1] \in {3, 7}

\* Exit(3) and Exit(7) raced, the handlers ran and the process ended with 7.
C2_Witness ==
  /\ exits = <<7>>
  /\ Len(ran) >= 1
  /\ \E t \in Threads : pc[t] = "exit" /\ arg[t].exitCode = 3

\* C3: of two handlers invoked by the drain, the one registered with the lower
\* priority value is invoked first and has returned when the other is invoked.
C3_PriorityOrder ==
  \A i, j \in 1 .. Len(ran) :
    regPrio[ran[i].h] < regPrio[ran[j].h] => i < j /\ ran[i].returned

\* The handler registered second, with the lower priority value, ran first.
C3_Witness ==
  /\ Terminated
  /\ Len(ran) = 2
  /\ ran[1].h = 2
  /\ ran[2].h = 1

\* C4: handlers that share a priority are invoked in the order in which their
\* registrations took effect.
C4_RegistrationOrder ==
  \A i, j \in 1 .. Len(ran) :
    (regPrio[ran[i].h] = regPrio[ran[j].h] /\ ran[i].h < ran[j].h) =>
      i < j /\ ran[i].returned

\* Two handlers of priority 0 ran, the first registered first.
C4_Witness ==
  /\ Terminated
  /\ regPrio = <<0, 0>>
  /\ Len(ran) = 2
  /\ ran[1].h = 1
  /\ ran[2].returned

C6_SignalValue ==
  claimed # <<>> =>
    LET w == claimed[1] IN
      /\ \A i, j \in 1 .. Len(ran) : ran[i].sig = ran[j].sig
      /\ w \in Threads => \A i \in 1 .. Len(ran) : IsNormalExit(ran[i].sig)
      /\ w \in Listeners =>
           /\ \A i \in 1 .. Len(ran) :
                /\ ~IsNormalExit(ran[i].sig)
                /\ ran[i].sig \in DeliveredSignals \cap DOMAIN sigs[w]
                /\ Terminated => exits[1] = sigs[w][ran[i].sig]
           /\ Terminated =>
                \E s \in DeliveredSignals \cap DOMAIN sigs[w] : exits[1] = sigs[w][s]

\* A listener started by Notify(ctx, SIGINT, 1) ran the handlers with SIGINT
\* and ended the process with status 1.
C6_Witness ==
  /\ exits = <<1>>
  /\ claimed[1] \in Listeners
  /\ Len(ran) >= 1
  /\ ran[1].sig = "SIGINT"

\* C7: when an Exit call claimed the gate, the process ends with the call's
\* exitCode if it is not negative and otherwise with the value ExitCode had
\* when Exit read it.
C7_ExitStatus ==
  (Terminated /\ claimed[1] \in Threads) =>
    LET exitCode == arg[claimed[1]].exitCode IN
      exits[1] = IF exitCode >= 0 THEN exitCode ELSE arg[claimed[1]].default

\* Exit(ctx, -1) with ExitCode = 9 ended the process with status 9.
C7_Witness ==
  /\ exits = <<9>>
  /\ claimed[1] \in Threads
  /\ arg[claimed[1]].exitCode = -1

\* C8, as the spec states it: a call that reaches the gate after another call
\* claimed it does not wait: it can go on at once.
C8_LosersReturnAtOnce ==
  \A a \in Actors :
    (Alive /\ Loser(a) /\ pc[a] = "once") => ENABLED handleOnce(a)

\* C8, amended: a call that reaches the gate after another call claimed it
\* runs no handler and never returns: it stays in once.Do (an Exit call
\* possibly first at the lock the winner holds) until os.Exit ends the process.
C8_LosersNeverReturn ==
  [][\A a \in Actors :
       Loser(a) => /\ pc'[a] \in {"exit", "once"}
                   /\ pc[a] = "once" => pc'[a] = "once"]_vars

\* A call stands at the gate while the winner's drain is inside a handler.
C8_Witness ==
  /\ Alive
  /\ \E a \in Actors : Loser(a) /\ pc[a] = "once"
  /\ \E a \in Actors : pc[a] = "in_handler"

\* C9: a Register / RegisterWithPriority call never fails.
C9_RegistrationNeverFails ==
  \A t \in Threads : pc[t] # "panicked"

\* C10: no handler that a Reset discarded is invoked afterwards.
C10_ResetDiscards ==
  [][Len(ran') > Len(ran) => ran'[Len(ran')].h \notin discarded]_vars

\* A drain that began after a Reset had cleared a non-empty registry found no
\* handler.
C10_Witness ==
  /\ discarded # {}
  /\ handlers.isNil
  /\ \E a \in Actors : pc[a] = "loop"
  /\ frame.keys = <<>>
  /\ ran = <<>>

\* The actors that actor a waits for: the holder of the lock it stands at, or
\* the actor that runs the function of once.
WaitsFor(a) ==
  CASE pc[a] \in {"exit", "notify", "reset", "h_exit"} -> lock
    [] pc[a] \in {"once", "h_once"} -> IF once = "running" THEN Range(claimed) ELSE {}
    [] pc[a] \in {"register", "reset_rwl", "h_register"} -> handlersRWL.w \cup handlersRWL.r
    [] OTHER -> {}

\* The actors that the actors of S wait for, directly or through n others.
RECURSIVE WaitClosure(_, _)
WaitClosure(S, n) ==
  IF n = 0 THEN S ELSE WaitClosure(S \cup UNION {WaitsFor(b) : b \in S}, n - 1)

\* Actor a waits for itself: no actor of the cycle ever goes on.
Deadlocked(a) == a \in WaitClosure(WaitsFor(a), Cardinality(Actors))

\* The signals that the most recent Notify call subscribed to (none before
\* the first call).
LastNotified ==
  IF nNotify = 0 THEN {}
  ELSE SignalNotify(SeqOf(DOMAIN sigs[ListenerOf(nNotify)]))

\* C11: a Reset takes the signals that the most recent Notify call subscribed
\* to, and no other signal, from os/signal's table.
C11_ResetUntrapsLastNotified ==
  [][(nNotify' = nNotify /\ trapped' # trapped) =>
       \A l \in Listeners : trapped'[l] = trapped[l] \ LastNotified]_vars

\* The signal values in an argument list, and the integer right after
\* position i (0 when the next value is no integer).
SignalsIn(list) == {list[i].sig : i \in {j \in 1 .. Len(list) : list[j].t = "signal"}}
FollowingInt(list, i) ==
  IF i < Len(list) /\ list[i + 1].t = "int" THEN list[i + 1].int ELSE 0
LastIndex(list, s) ==
  CHOOSE i \in 1 .. Len(list) :
    /\ list[i] = SigArg(s)
    /\ \A j \in i + 1 .. Len(list) : list[j] # SigArg(s)

\* Every value of the list is a signal or an integer right after a signal.
WellFormed(list) ==
  \A i \in 1 .. Len(list) :
    \/ list[i].t = "signal"
    \/ list[i].t = "int" /\ i > 1 /\ list[i - 1].t = "signal"

\* The default of the platform, as the spec's table gives it.
PlatformDefault ==
  [s \in {"SIGKILL", "SIGHUP", "SIGINT", "SIGQUIT", "SIGTERM"} |->
     IF s = "SIGKILL" THEN 1 ELSE 0]

\* C12, as stated: whatever list a Notify call is given, its sigs map has the
\* signals of the list as keys, each with the integer that follows it (or 0);
\* the empty list gives the platform default; signal.Notify subscribes to
\* exactly the keys.
C12_ResolvedSpec ==
  [][\A l \in Listeners :
       (pc[l] = "unborn" /\ pc'[l] # "unborn") =>
         LET list == sigArgs'[l]
             m == sigs'[l]
         IN /\ list = <<>> => m = PlatformDefault
            /\ list # <<>> =>
                 /\ DOMAIN m = SignalsIn(list)
                 /\ \A i \in 1 .. Len(list) :
                      list[i].t = "signal" => m[list[i].sig] = FollowingInt(list, i)
            /\ trapped'[l] = DOMAIN m]_vars

\* C12, amended: the same for the lists in which every value is a signal or
\* an integer right after a signal, a signal that occurs more than once
\* having the integer that follows its last occurrence (or 0).
C12_ResolvedSpecWellFormed ==
  [][\A l \in Listeners :
       (pc[l] = "unborn" /\ pc'[l] # "unborn" /\ WellFormed(sigArgs'[l])) =>
         LET list == sigArgs'[l]
             m == sigs'[l]
         IN /\ list = <<>> => m = PlatformDefault
            /\ list # <<>> =>
                 /\ DOMAIN m = SignalsIn(list)
                 /\ \A sg \in SignalsIn(list) :
                      m[sg] = FollowingInt(list, LastIndex(list, sg))
            /\ trapped'[l] = DOMAIN m]_vars

\* Notify(ctx, SIGINT, 2, SIGTERM) started a listener with SIGINT -> 2 and
\* SIGTERM -> 0 that is subscribed to these two signals.
C12_Witness ==
  \E l \in Listeners :
    /\ pc[l] = "recv"
    /\ sigArgs[l] = <<SigArg("SIGINT"), IntArg(2), SigArg("SIGTERM")>>
    /\ sigs[l] = [sg \in {"SIGINT", "SIGTERM"} |-> IF sg = "SIGINT" THEN 2 ELSE 0]
    /\ trapped[l] = {"SIGINT", "SIGTERM"}

\* C13: no Exit call, from a thread or from inside a handler, is part of a
\* deadlock.
C13_ExitNeverDeadlocks ==
  \A a \in Actors :
    pc[a] \in {"exit", "once", "h_exit", "h_once"} => ~Deadlocked(a)

\* C14: a listener leaves its loop for the gate only with a delivered signal
\* that is a key of its sigs map, and with the code of that key: a listener
\* that has received only other signals stands in its loop, has not claimed
\* the gate, has run no handler and has not ended the process.
C14_UnmappedSignalIgnored ==
  \A l \in Listeners :
    /\ pc[l] \notin {"unborn", "recv"} =>
         /\ hs[l] \in DeliveredSignals \cap DOMAIN sigs[l]
         /\ hx[l] = sigs[l][hs[l]]
    /\ (pc[l] # "unborn" /\ DeliveredSignals \cap DOMAIN sigs[l] = {}) =>
         /\ pc[l] = "recv"
         /\ l \notin Range(claimed)
         /\ (ran # <<>> \/ Terminated) => claimed # <<>> /\ claimed[1] # l

\* A listener that is sent every signal and has an exit code for none stands
\* in its loop; an Exit call ran the handlers and ended the process.
C14_Witness ==
  /\ Terminated
  /\ claimed[1] \in Threads
  /\ Len(ran) >= 1
  /\ \E l \in Listeners :
       /\ pc[l] = "recv"
       /\ sigs[l] = EmptyMap
       /\ DeliveredSignals \subseteq trapped[l]

\* The gate of the spec: Idle until once.Do starts its function, Exiting
\* while the function runs, Terminated from os.Exit on.
GateState ==
  IF Terminated THEN "Terminated"
  ELSE IF once = "running" THEN "Exiting" ELSE "Idle"

\* A step of a Reset call: it waits at a lock, untraps signals or clears the
\* registry.
ResetStep ==
  \/ \E t \in Threads : pc'[t] # pc[t] /\ pc'[t] \in {"reset", "reset_rwl"}
  \/ \E t \in Threads : pc[t] = "reset_rwl" /\ pc'[t] = "idle"
  \/ nNotify' = nNotify /\ trapped' # trapped
  \/ handlers'.isNil # handlers.isNil
  \/ discarded' # discarded

\* C15: the gate only moves from Idle to Exiting and from Exiting to
\* Terminated; once.Do starts its function only in the step from Idle to
\* Exiting; a step of Reset leaves the gate as it is.
C15_GateMovesForward ==
  [][/\ GateState' # GateState =>
          <<GateState, GateState'>> \in {<<"Idle", "Exiting">>, <<"Exiting", "Terminated">>}
     /\ claimed' # claimed => GateState = "Idle" /\ GateState' = "Exiting"
     /\ ResetStep => once' = once /\ claimed' = claimed /\ exits' = exits]_vars

\* The handlers ran and a Reset cleared the registry before os.Exit: the
\* gate went on to Terminated.
C15_Witness ==
  /\ GateState = "Terminated"
  /\ Len(ran) >= 1
  /\ handlers.isNil

\* C16: once the gate is claimed the process ends, with the status code of
\* the call that claimed it, and the drain does not end before every handler
\* of the registry has been invoked.
C16_DrainTerminates ==
  /\ (claimed # <<>>) ~> (Terminated /\ exits = <<hx[claimed[1]]>>)
  /\ [][\A a \in Actors :
         (pc[a] = "loop" /\ pc'[a] = "os_exit") =>
           Registered(handlers) \subseteq {ran[i].h : i \in 1 .. Len(ran)}]_vars

\* The process ended after two handlers ran, while a Reset call that came
\* during the drain waits for the registry.
C16_Witness ==
  /\ Terminated
  /\ Len(ran) = 2
  /\ \E t \in Threads : pc[t] = "reset_rwl"


\* C17: no Register or RegisterWithPriority call, from a thread or from inside
\* a handler of the running drain, is part of a cycle of goroutines that wait
\* for one another: the call returns and the drain goes on to its end.
C17_RegisterNeverBlocksDrain ==
  \A a \in Actors :
    pc[a] \in {"register", "h_register"} => ~Deadlocked(a)

\* C18: while the function of once.Do runs, and after it, a call that stands
\* at the gate cannot start the function, stays where it is at every step,
\* and an Exit call among them still holds the lock that its return would
\* release: no such call returns before os.Exit.
C18_BlockedUntilTermination ==
  /\ [](\A a \in Actors :
         (once = "running" /\ pc[a] = "once") =>
           /\ ~ENABLED handleOnce(a)
           /\ Loser(a)
           /\ a \in Threads => lock = {a})
  /\ [][\A a \in Actors :
         (once = "running" /\ pc[a] = "once") => pc'[a] = "once"]_vars

\* An Exit call and a signal delivery stand at the gate, the Exit call with
\* the lock, when the drain of another listener has run a handler and the
\* process has ended.
C18_Witness ==
  /\ Terminated
  /\ Len(ran) >= 1
  /\ claimed[1] \in Listeners
  /\ \E t \in Threads : pc[t] = "once" /\ lock = {t}

\* The handlers invoked so far.
Invoked == {ran[i].h : i \in 1 .. Len(ran)}

\* C19: from the step in which the drain takes its read lock to the step in
\* which handle returns the registry does not change; the drain invokes only
\* handlers of the registry, none twice, and handle returns when it has
\* invoked all of them; nothing is invoked after that; and a handler leaves
\* the registry only when a Reset discards it, so that every handler
\* registered before the gate was claimed and not discarded is among them.
C19_StableSnapshot ==
  [][/\ handlersRWL.r # {} =>
          handlers' = handlers /\ regPrio' = regPrio /\ discarded' = discarded
     /\ ran' # ran =>
          \/ ran' = [ran EXCEPT ![Len(ran)].returned = TRUE]
          \/ /\ Len(ran') = Len(ran) + 1
             /\ ran'[Len(ran')].h \in Registered(handlers) \ Invoked
             /\ handlersRWL.r = {claimed[1]}
     /\ \A a \in Actors :
          (pc[a] = "loop" /\ pc'[a] = "os_exit") =>
            /\ Invoked = Registered(handlers)
            /\ Len(ran) = Cardinality(Registered(handlers))
     /\ (\E a \in Actors : pc[a] = "os_exit") \/ Terminated => ran' = ran
     /\ Registered(handlers) \ Registered(handlers') \subseteq discarded'
                                                                    ]_vars

\* The drain ended with the one handler that it found; a second handler,
\* registered after the drain, is in the registry and was not invoked.
C19_Witness ==
  /\ \E a \in Actors : pc[a] = "os_exit"
  /\ Invoked = {1}
  /\ Registered(handlers) = {1, 2}

\* C20: the step in which a Reset clears the registry is never taken while a
\* drain holds the read lock or stands in its loop; a drain that has invoked
\* a handler and has not returned from handle reads a registry that no Reset
\* has cleared; and handle returns either with no handler invoked, when the
\* registry was cleared before, or with every handler of the registry invoked.
C20_ResetNotBetweenInvocations ==
  [][/\ (handlers'.isNil /\ ~handlers.isNil) =>
          /\ handlersRWL.r = {}
          /\ \A a \in Actors : pc[a] \notin {"loop", "in_handler"}
     /\ \A a \in Actors :
          (pc'[a] \in {"loop", "in_handler"} /\ ran' # <<>>) =>
            ~handlers'.isNil /\ Invoked' \subseteq Registered(handlers')
     /\ \A a \in Actors :
          (pc[a] = "loop" /\ pc'[a] = "os_exit") =>
            IF handlers.isNil THEN ran = <<>>
            ELSE Invoked = Registered(handlers)]_vars

\* A Reset call waits at handlersRWL.Lock() while the drain runs the second
\* of the two handlers of the registry.
C20_Witness ==
  /\ \E t \in Threads : pc[t] = "reset_rwl"
  /\ \E a \in Actors : pc[a] = "in_handler"
  /\ Len(ran) = 2
  /\ Registered(handlers) = {1, 2}

====
